---- MODULE Spec2Model ----
(***************************************************************************)
(* Archive (ZIP) job engine of file-manager-cm.                            *)
(*                                                                         *)
(*   queue.ts  (src/unnamed/part_001)  InMemoryQueue: addJob,              *)
(*             updateJobStatus, processQueue, processJob, processZipJob    *)
(*   zip.ts    (src/src/lib/zip.ts)    processZipFiles                     *)
(*   database.ts (src/src/lib/api.ts)  DatabaseOps: createZipJob,          *)
(*             updateZipJobStatus, getFileById, deleteFile                 *)
(*                                                                         *)
(* Hierarchy store of file-manager-cm.                                     *)
(*                                                                         *)
(*   supabase-api.ts (src/src/lib/supabase-api.ts)  supabaseApi:           *)
(*             createFolder, deleteFolder, uploadFile, deleteFile,         *)
(*             moveFile, getFolderBreadcrumbs                              *)
(*   supabase-setup.sql  fm_folders, fm_files, row level security,         *)
(*             create_user_root_folder                                     *)
(*   database.ts (src/src/lib/api.ts)  folders table, DatabaseOps:         *)
(*             createFolder, deleteFolder                                  *)
(*                                                                         *)
(* The program runs on one JavaScript event loop: a handler runs without   *)
(* interruption up to its next await, so one action is one such run.       *)
(***************************************************************************)
EXTENDS Integers, Sequences, FiniteSets, TLC

\* ---------------------------------------------------------------- bounds
MaxJobs == 3      \* jobs submitted in Spec
MaxReq == 1       \* file ids per request in Spec
ArchReq == 3      \* file ids per request in ArchiveSpec
NumFiles == 4     \* rows of the files table

Users == {"u1", "u2"}
FileIds == 1..NumFiles

\* ------------------------------------------------- the files table (rows)
\* user_id, name and fs.existsSync(path) of the rows the jobs refer to:
\* odd ids belong to u1, even ids to u2, and file 4 has lost its blob.
FileOwner(f) == IF f % 2 = 0 THEN "u2" ELSE "u1"
FileName(f) == <<"name", f>>
HasBlob(f) == f % 4 # 0

\* the requests (fileIds arrays) of at most n ids out of F
RECURSIVE SeqsUpTo(_, _)
SeqsUpTo(F, n) ==
  IF n = 0 THEN {<<>>}
  ELSE LET S == SeqsUpTo(F, n - 1)
       IN S \cup {Append(s, f) : s \in {t \in S : Len(t) = n - 1}, f \in F}

\* the ids u1 requests in Spec: a file of its own and a file of u2
QueueFiles == {1, 2}

VARIABLES
  folders,     \* fm_folders rows, by id
  files,       \* fm_files rows, by id
  blobs,       \* objects stored in the bucket 'files': name :> bytes
  nextFolder,  \* the next id gen_random_uuid() gives a folder
  nextFile,    \* the next id uuidv4() gives a file
  call,        \* the createFolder call that awaits its insert, if any
  last,        \* the supabaseApi / DatabaseOps call that returned last
  sqlFolders,  \* rows of the sqlite folders table, by id
  fkOn,        \* whether the sqlite connection enforces foreign keys
  moving,      \* the moveFile call that awaits its upsert, if any
  deleting,    \* the deleteFile call in flight, or the one that returned last
  now,         \* Date.now()
  jobs,        \* InMemoryQueue.jobs, in Map insertion order; job id = index
  processing,  \* InMemoryQueue.processing
  loopAt,      \* job ids at which a processQueue call awaits processJob
  build,       \* per job: the processZipFiles call, its promise and archive
  db,          \* zip_jobs rows, by job id
  fileRows,    \* ids that have a row in the files table
  returned     \* status of the record the last addJob returned

qvars == <<jobs, processing, loopAt, build, db, fileRows, returned>>
fvars == <<moving, deleting, now>>
hvars == <<folders, files, blobs, nextFolder, nextFile, call, last,
           sqlFolders, fkOn, moving, deleting, now>>
vars == <<jobs, processing, loopAt, build, db, fileRows, returned,
          folders, files, blobs, nextFolder, nextFile, call, last,
          sqlFolders, fkOn, moving, deleting, now>>

Terminal == {"completed", "failed"}
JobIds == 1..Len(jobs)

\* ------------------------------------------------------------ DatabaseOps
DownloadUrl(jobId) == <<"/api/zip/", jobId>>

createZipJob(d, userId, fileIds) ==
  Append(d, [user_id |-> userId, file_ids |-> fileIds, status |-> "pending",
             download_url |-> <<>>, completed_at |-> "null"])

\* mutant: completed_at is left out of the UPDATE
updateZipJobStatusNoStamp(d, id, status, downloadUrl) ==
  IF id \notin 1..Len(d) THEN d
  ELSE IF downloadUrl # <<>>
    THEN [d EXCEPT ![id].status = status, ![id].download_url = downloadUrl]
    ELSE [d EXCEPT ![id].status = status]
updateZipJobStatus(d, id, status, downloadUrl) ==
  IF id \notin 1..Len(d) THEN d
  ELSE IF downloadUrl # <<>>
    THEN [d EXCEPT ![id].status = status, ![id].download_url = downloadUrl,
                   ![id].completed_at = "ts"]
    ELSE [d EXCEPT ![id].status = status]

getFileById(rows, id) == id \in rows

\* mutant: the ownership test of the loop is dropped
IncludeAnyOwner(file, fileId, userId) == file /\ HasBlob(fileId)
\* zip.ts: file && file.user_id === userId && fs.existsSync(file.path)
Include(file, fileId, userId) ==
  file /\ FileOwner(fileId) = userId /\ HasBlob(fileId)

\* ---------------------------------------------------------- InMemoryQueue
NewJob(id, userId, fileIds) ==
  [id |-> id, userId |-> userId, fileIds |-> fileIds,
   status |-> "pending", processedAt |-> "null"]

updateJobStatus(q, id, status, processedAt) ==
  IF id \notin 1..Len(q) THEN q
  ELSE IF processedAt # "null"
    THEN [q EXCEPT ![id].status = status, ![id].processedAt = processedAt]
    ELSE [q EXCEPT ![id].status = status]

PendingIds(q) == {i \in 1..Len(q) : q[i].status = "pending"}
\* Array.from(this.jobs.values()).find(job => job.status === 'pending')
\* mutant: only the first record of the map is inspected
HasPendingFirstOnly(q) == Len(q) > 0 /\ q[1].status = "pending"
HasPending(q) == PendingIds(q) # {}
\* mutant: the last pending record is taken instead of the first
FindPendingLast(q) == CHOOSE i \in PendingIds(q) : \A k \in PendingIds(q) : i >= k
FindPending(q) == CHOOSE i \in PendingIds(q) : \A k \in PendingIds(q) : i <= k

NoBuild ==
  [phase |-> "none", idx |-> 0, entries |-> <<>>, lookups |-> <<>>,
   promise |-> "none", archErr |-> FALSE, outErr |-> FALSE]

\* mutant: processZipFiles is entered synchronously, without the await
StartJobSync(q, b, id) ==
  <<updateJobStatus(q, id, "processing", "null"),
    [b EXCEPT ![id].phase = IF q[id].fileIds = <<>> THEN "finalize" ELSE "files",
              ![id].idx = 1, ![id].promise = "pending"]>>
\* processJob up to its first await (the dynamic import in processZipJob)
StartJob(q, b, id) ==
  <<updateJobStatus(q, id, "processing", "null"),
    [b EXCEPT ![id].phase = "import"]>>

\* the guard of processQueue
QueueBusy(flag) == flag

\* processQueue entered from addJob: runs to the first await of processJob
\* result: <<jobs, build, processing, loopAt>>
processQueue(q, b, flag, loops) ==
  IF QueueBusy(flag) THEN <<q, b, flag, loops>>
  ELSE IF HasPending(q)
    THEN LET p == FindPending(q)
             s == StartJob(q, b, p)
         IN <<s[1], s[2], TRUE, loops \cup {p}>>
    ELSE <<q, b, FALSE, loops>>

\* resolve/reject of the processZipFiles promise followed by the
\* continuation of processJob (lines 67 and 69-72)
Resolve(q, b, id) ==
  IF b[id].promise = "pending"
  THEN <<updateJobStatus(q, id, "completed", "date"),
         [b EXCEPT ![id].promise = "resolved"]>>
  ELSE <<q, b>>

Reject(q, b, id) ==
  IF b[id].promise = "pending"
  THEN <<updateJobStatus(q, id, "failed", "date"),
         [b EXCEPT ![id].promise = "rejected"]>>
  ELSE <<q, b>>

\* ------------------------------------------------------- hierarchy store
\* supabase-setup.sql: fm_folders, fm_files; supabase-api.ts: supabaseApi.
\* Ids are the naturals in the order the uuid generators hand them out; names
\* and paths are sequences of characters, so that a path is built by
\* concatenation as the template string builds it.
MaxFolders == 4     \* folder ids ever handed out: 1..MaxFolders
MaxFiles == 2       \* file ids ever handed out: 1..MaxFiles
HierFiles == 1      \* uploads among the folder calls of HierSpec
MaxClock == 1       \* Date.now() runs over 0..MaxClock

NoFolder == 0       \* parent_id NULL; parentId undefined
Slash == <<"/">>
Root == <<"R", "o", "o", "t">>
Docs == <<"D", "o", "c", "s">>
Reports == <<"R", "e", "p", "o", "r", "t", "s">>
FolderNames == {Docs, Reports}
UploadNames == {"a.pdf", "b.pdf"}
UploadBytes == {<<7>>, <<7, 7>>}
\* the File objects handed to uploadFile: file.name and the bytes
Uploads == {[name |-> n, bytes |-> b] : n \in UploadNames, b \in UploadBytes}
HierUploads == {[name |-> "a.pdf", bytes |-> <<7>>]}
FolderIds == 1..MaxFolders

NoCall == [kind |-> "none"]
NoResult == [op |-> "none", user |-> "none", arg |-> 0, err |-> FALSE]

\* what a call that returns records: the operation, its caller, its id
\* argument and whether it threw
Outcome(op, userId, arg, err) ==
  [op |-> op, user |-> userId, arg |-> arg, err |-> err]

\* the rows of table t without the ids in S
Drop(t, S) == [i \in DOMAIN t \ S |-> t[i]]

\* ON DELETE CASCADE on parent_id: the ids in S and every row below them
RECURSIVE Cascade(_, _)
Cascade(t, S) ==
  LET more == {i \in DOMAIN t : t[i].parent_id \in S} \ S
  IN  IF more = {} THEN S ELSE Cascade(t, S \cup more)

\* ON DELETE CASCADE on fm_files.folder_id
CascadeFiles(t, gone) == [f \in {g \in DOMAIN t : t[g].folder_id \notin gone} |-> t[f]]

\* trigger on_auth_user_created: INSERT ... VALUES ('Root', NULL, NEW.id, '/')
create_user_root_folder(t, id, userId) ==
  t @@ (id :> [name |-> Root, parent_id |-> NoFolder, user_id |-> userId,
               path |-> Slash])

VisibleToAll(t, userId, id) == id \in DOMAIN t

\* row level security: USING (auth.uid() = user_id)
Visible(t, userId, id) == id \in DOMAIN t /\ t[id].user_id = userId

ParentPathNoName(parentFolder) == parentFolder.path \o Slash

ForeignKeyUnchecked(t, id) == TRUE

\* parent_id / folder_id REFERENCES fm_folders(id): NULL or an existing row
ForeignKeyHolds(t, id) == id = NoFolder \/ id \in DOMAIN t

\* createFolder: path = `${parentFolder.path}${parentFolder.name}/`
ParentPath(parentFolder) == parentFolder.path \o parentFolder.name \o Slash

\* both users have signed up: the trigger has made each a root folder
HierInit ==
  /\ folders = create_user_root_folder(create_user_root_folder(<<>>, 1, "u1"), 2, "u2")
  /\ files = <<>>
  /\ blobs = <<>>
  /\ nextFolder = 3
  /\ nextFile = 1
  /\ call = NoCall
  /\ last = NoResult
  /\ sqlFolders = <<>>
  /\ moving = NoCall
  /\ deleting = NoCall
  /\ now = 0

\* ----------------------------------------------------------------- Init
QueueInit ==
  /\ jobs = <<>>
  /\ processing = FALSE
  /\ loopAt = {}
  /\ build = <<>>
  /\ db = <<>>
  /\ fileRows = FileIds
  /\ returned = "none"

\* initializeDatabase issues no PRAGMA foreign_keys: the connection has the
\* library's default, which is off unless the build turned it on
Init == QueueInit /\ HierInit /\ fkOn = FALSE

\* the same start under either build of the sqlite library
SqlInit == QueueInit /\ HierInit /\ fkOn \in BOOLEAN

\* --------------------------------------------------------------- actions
\* addJob: this.jobs.set(id, job); this.processQueue(); return job
\* result: <<jobs, build, processing, loopAt, status of the returned record>>
addJob(q, b, flag, loops, id, userId, fileIds) ==
  LET r == processQueue(Append(q, NewJob(id, userId, fileIds)),
                        Append(b, NoBuild), flag, loops)
  IN <<r[1], r[2], r[3], r[4], r[1][id].status>>

\* submit (POST /api/zip): the zip_jobs row is inserted with the table's
\* default status, then queue.addJob(id, 'zip', {fileIds, userId}) is called
\* with the id of the row (ids are unique: the primary key of zip_jobs)
Submit(userId, fileIds) ==
  /\ LET id == Len(jobs) + 1
         r == addJob(jobs, build, processing, loopAt, id, userId, fileIds)
     IN /\ db' = createZipJob(db, userId, fileIds)
        /\ jobs' = r[1]
        /\ build' = r[2]
        /\ processing' = r[3]
        /\ loopAt' = r[4]
        /\ returned' = r[5]
  /\ UNCHANGED fileRows
  /\ UNCHANGED hvars

\* processQueue resumes after `await this.processJob(pendingJob)`
LoopNext(j) ==
  /\ j \in loopAt
  /\ jobs[j].status \in Terminal
  /\ IF HasPending(jobs)
     THEN LET p == FindPending(jobs)
              s == StartJob(jobs, build, p)
          IN /\ jobs' = s[1]
             /\ build' = s[2]
             /\ loopAt' = (loopAt \ {j}) \cup {p}
             /\ UNCHANGED processing
     ELSE /\ processing' = FALSE
          /\ loopAt' = loopAt \ {j}
          /\ UNCHANGED <<jobs, build>>
  /\ UNCHANGED <<db, fileRows, returned>>
  /\ UNCHANGED hvars

\* import('./zip') resolves; processZipFiles runs to its first await
ImportDone(j) ==
  /\ j \in JobIds
  /\ build[j].phase = "import"
  /\ build' = [build EXCEPT ![j].promise = "pending",
                            ![j].idx = 1,
                            ![j].phase = IF jobs[j].fileIds = <<>>
                                         THEN "finalize" ELSE "files"]
  /\ UNCHANGED <<jobs, processing, loopAt, db, fileRows, returned>>
  /\ UNCHANGED hvars

\* import('./zip') rejects (the module's mkdirSync throws): processJob's catch
ImportFail(j) ==
  /\ j \in JobIds
  /\ build[j].phase = "import"
  /\ build' = [build EXCEPT ![j].phase = "importfail"]
  /\ jobs' = updateJobStatus(jobs, j, "failed", "date")
  /\ UNCHANGED <<processing, loopAt, db, fileRows, returned>>
  /\ UNCHANGED hvars

\* one iteration of `for (const fileId of fileIds)`: getFileById resolves
ResolveFile(j) ==
  /\ j \in JobIds
  /\ build[j].phase = "files"
  /\ LET i == build[j].idx
         fileId == jobs[j].fileIds[i]
         file == getFileById(fileRows, fileId)
         add == Include(file, fileId, jobs[j].userId)
     IN build' = [build EXCEPT
          ![j].entries = IF add THEN Append(@, FileName(fileId)) ELSE @,
          ![j].lookups = Append(@, file),
          ![j].idx = i + 1,
          ![j].phase = IF i = Len(jobs[j].fileIds) THEN "finalize" ELSE "files"]
  /\ UNCHANGED <<jobs, processing, loopAt, db, fileRows, returned>>
  /\ UNCHANGED hvars

\* getFileById rejects inside the loop: the catch of processZipFiles
LookupError(j) ==
  /\ j \in JobIds
  /\ build[j].phase = "files"
  /\ db' = updateZipJobStatus(db, j, "failed", <<>>)
  /\ LET b == [build EXCEPT ![j].phase = "aborted"]
         r == Reject(jobs, b, j)
     IN /\ jobs' = r[1]
        /\ build' = r[2]
  /\ UNCHANGED <<processing, loopAt, fileRows, returned>>
  /\ UNCHANGED hvars

\* archive.on('error') for an entry that was added: the handler runs, and
\* the loop and the archive go on after it
ArchiveError(j) ==
  /\ j \in JobIds
  /\ build[j].phase \in {"files", "finalize"}
  /\ build[j].entries # <<>>
  /\ ~build[j].archErr
  /\ db' = updateZipJobStatus(db, j, "failed", <<>>)
  /\ LET b == [build EXCEPT ![j].archErr = TRUE]
         r == Reject(jobs, b, j)
     IN /\ jobs' = r[1]
        /\ build' = r[2]
  /\ UNCHANGED <<processing, loopAt, fileRows, returned>>
  /\ UNCHANGED hvars

\* output.on('close'): the archive was finalized and the file is closed
Close(j) ==
  /\ j \in JobIds
  /\ build[j].phase = "finalize"
  /\ ~build[j].outErr
  /\ db' = updateZipJobStatus(db, j, "completed", DownloadUrl(j))
  /\ LET b == [build EXCEPT ![j].phase = "closed"]
         r == Resolve(jobs, b, j)
     IN /\ jobs' = r[1]
        /\ build' = r[2]
  /\ UNCHANGED <<processing, loopAt, fileRows, returned>>
  /\ UNCHANGED hvars

\* the write stream fails ('error' on output, which has no listener):
\* no handler of processZipFiles runs and 'close' is not delivered
OutputError(j) ==
  /\ j \in JobIds
  /\ build[j].phase \in {"files", "finalize"}
  /\ ~build[j].outErr
  /\ build' = [build EXCEPT ![j].outErr = TRUE]
  /\ UNCHANGED <<jobs, processing, loopAt, db, fileRows, returned>>
  /\ UNCHANGED hvars

\* DatabaseOps.deleteFile(id, userId) by the file's owner
DeleteFile(f) ==
  /\ f \in fileRows
  /\ fileRows' = fileRows \ {f}
  /\ UNCHANGED <<jobs, processing, loopAt, build, db, returned>>
  /\ UNCHANGED hvars

Worker ==
  \/ \E j \in JobIds : LoopNext(j)
  \/ \E j \in JobIds : ImportDone(j)
  \/ \E j \in JobIds : ImportFail(j)
  \/ \E j \in JobIds : ResolveFile(j)
  \/ \E j \in JobIds : LookupError(j)
  \/ \E j \in JobIds : ArchiveError(j)
  \/ \E j \in JobIds : Close(j)
  \/ \E j \in JobIds : OutputError(j)

\* the queue under one user's submits
Next ==
  \/ Len(jobs) < MaxJobs /\ \E r \in SeqsUpTo(QueueFiles, MaxReq) : Submit("u1", r)
  \/ Worker

Spec == Init /\ [][Next]_vars

\* the archive of one job under any user's request and concurrent deletes
ArchiveNext ==
  \/ jobs = <<>> /\ \E u \in Users, r \in SeqsUpTo(FileIds, ArchReq) : Submit(u, r)
  \/ \E f \in FileIds : DeleteFile(f)
  \/ Worker

ArchiveSpec == Init /\ [][ArchiveNext]_vars

\* Spec with the progress the event loop gives: a continuation that is
\* ready runs, and an archive that was finalized on a healthy output stream
\* closes.  Submits and failures are not forced.
Fairness ==
  \A j \in 1..MaxJobs :
    /\ WF_vars(LoopNext(j))
    /\ WF_vars(ImportDone(j))
    /\ WF_vars(ResolveFile(j))
    /\ WF_vars(Close(j))

FairSpec == Spec /\ Fairness

\* ----------------------------------------------- hierarchy store: actions
\* supabaseApi.createFolder up to its insert: getUser, then the select of the
\* parent's path and name under row level security.  .single() is an error
\* when the select gives no row.
CreateFolder(userId, name, parentId) ==
  /\ call = NoCall
  /\ nextFolder <= MaxFolders
  /\ IF parentId # NoFolder /\ ~Visible(folders, userId, parentId)
     THEN /\ last' = Outcome("createFolder", userId, parentId, TRUE)
          /\ UNCHANGED call
     ELSE /\ call' = [kind |-> "createFolder", user |-> userId, name |-> name,
                      parent_id |-> parentId,
                      path |-> IF parentId = NoFolder THEN Slash
                               ELSE ParentPath(folders[parentId])]
          /\ UNCHANGED last
  /\ UNCHANGED <<folders, files, blobs, nextFolder, nextFile, sqlFolders, fkOn>>
  /\ UNCHANGED fvars
  /\ UNCHANGED qvars

\* supabaseApi.createFolder, the insert: parent_id REFERENCES fm_folders(id),
\* WITH CHECK (auth.uid() = user_id)
InsertFolder ==
  /\ call # NoCall
  /\ IF ForeignKeyHolds(folders, call.parent_id)
     THEN /\ folders' = folders @@
               (nextFolder :> [name |-> call.name, parent_id |-> call.parent_id,
                               user_id |-> call.user, path |-> call.path])
          /\ nextFolder' = nextFolder + 1
          /\ last' = Outcome("createFolder", call.user, call.parent_id, FALSE)
     ELSE /\ last' = Outcome("createFolder", call.user, call.parent_id, TRUE)
          /\ UNCHANGED <<folders, nextFolder>>
  /\ call' = NoCall
  /\ UNCHANGED <<files, blobs, nextFile, sqlFolders, fkOn>>
  /\ UNCHANGED fvars
  /\ UNCHANGED qvars

\* supabaseApi.deleteFolder: DELETE FROM fm_folders WHERE id = $1 under
\* USING (auth.uid() = user_id); no row matching is not an error.  The
\* database cascades to the rows below and to their files.
DeleteFolder(userId, id) ==
  LET gone == IF Visible(folders, userId, id) THEN Cascade(folders, {id}) ELSE {}
  IN  /\ folders' = Drop(folders, gone)
      /\ files' = CascadeFiles(files, gone)
      /\ last' = Outcome("deleteFolder", userId, id, FALSE)
      /\ UNCHANGED <<blobs, nextFolder, nextFile, call, sqlFolders, fkOn>>
      /\ UNCHANGED fvars
      /\ UNCHANGED qvars

StoragePath(userId, fileId, name) == <<userId, "/", fileId, "_", name>>

\* uploadFile: checksum = `${file.size}_${file.name}_${Date.now()}`
Checksum(file, t) == <<Len(file.bytes), "_", file.name, "_", t>>

uploadFileRowAnyway(fl, bl, fd, userId, file, folderId, fileId, t, uploadError) ==
  LET storagePath == StoragePath(userId, fileId, file.name)
      row == [name |-> file.name, size |-> Len(file.bytes),
              checksum |-> Checksum(file, t), folder_id |-> folderId,
              user_id |-> userId, storage_path |-> storagePath]
      stored == IF uploadError THEN bl ELSE bl @@ (storagePath :> file.bytes)
  IN  IF ForeignKeyHolds(fd, folderId)
      THEN [files |-> fl @@ (fileId :> row), blobs |-> stored, err |-> uploadError]
      ELSE [files |-> fl, blobs |-> stored, err |-> TRUE]

\* supabaseApi.uploadFile on the rows fl, the bucket bl and the folders fd:
\* the storage upload, `if (uploadError) throw uploadError`, then the insert
\* of the row; folder_id REFERENCES fm_folders(id), WITH CHECK
\* (auth.uid() = user_id).  Result: the rows, the bucket, whether it threw.
uploadFile(fl, bl, fd, userId, file, folderId, fileId, t, uploadError) ==
  LET storagePath == StoragePath(userId, fileId, file.name)
      row == [name |-> file.name, size |-> Len(file.bytes),
              checksum |-> Checksum(file, t), folder_id |-> folderId,
              user_id |-> userId, storage_path |-> storagePath]
      stored == bl @@ (storagePath :> file.bytes)
  IN  IF uploadError
      THEN [files |-> fl, blobs |-> bl, err |-> TRUE]
      ELSE IF ForeignKeyHolds(fd, folderId)
      THEN [files |-> fl @@ (fileId :> row), blobs |-> stored, err |-> FALSE]
      ELSE [files |-> fl, blobs |-> stored, err |-> TRUE]

\* one uploadFile call, its storage upload and its insert taken as one step
UploadFile(userId, file, folderId) ==
  /\ nextFile <= MaxFiles
  /\ nextFile' = nextFile + 1
  /\ \E uploadError \in BOOLEAN :
       LET r == uploadFile(files, blobs, folders, userId, file, folderId,
                           nextFile, now, uploadError)
       IN  /\ files' = r.files
           /\ blobs' = r.blobs
           /\ last' = Outcome("uploadFile", userId, folderId, r.err)
  /\ UNCHANGED <<folders, nextFolder, call, sqlFolders, fkOn>>
  /\ UNCHANGED fvars
  /\ UNCHANGED qvars

HierNext ==
  \/ \E u \in Users, n \in FolderNames, p \in {NoFolder} \cup FolderIds :
       CreateFolder(u, n, p)
  \/ InsertFolder
  \/ \E u \in Users, id \in FolderIds : DeleteFolder(u, id)
  \/ /\ nextFile <= HierFiles
     /\ \E u \in Users, f \in HierUploads, p \in FolderIds : UploadFile(u, f, p)

\* the hierarchy store under the calls of both users
HierSpec == Init /\ [][HierNext]_vars

\* ------------------------------------------------ sqlite folders: actions
\* DatabaseOps.createFolder: INSERT INTO folders (id, name, parent_id,
\* user_id, path) VALUES (...) of the row the caller built
DbCreateFolder(t, id, folder) == t @@ (id :> folder)

\* DatabaseOps.deleteFolder: DELETE FROM folders WHERE id = ? AND user_id = ?;
\* FOREIGN KEY (parent_id) ... ON DELETE CASCADE acts only on a connection
\* that enforces foreign keys
DbDeleteFolder(t, fk, id, userId) ==
  LET gone == IF ~Visible(t, userId, id) THEN {}
              ELSE IF fk THEN Cascade(t, {id}) ELSE {id}
  IN  Drop(t, gone)

\* the caller of DatabaseOps.createFolder: a folder under an existing folder
\* of the caller, or a parentless one
SqlCreateFolder(userId, name, parentId) ==
  /\ nextFolder <= MaxFolders
  /\ parentId # NoFolder => Visible(sqlFolders, userId, parentId)
  /\ sqlFolders' = DbCreateFolder(sqlFolders, nextFolder,
                     [name |-> name, parent_id |-> parentId, user_id |-> userId,
                      path |-> IF parentId = NoFolder THEN Slash
                               ELSE ParentPath(sqlFolders[parentId])])
  /\ nextFolder' = nextFolder + 1
  /\ last' = Outcome("createFolder", userId, parentId, FALSE)
  /\ UNCHANGED <<folders, files, blobs, nextFile, call, fkOn>>
  /\ UNCHANGED fvars
  /\ UNCHANGED qvars

SqlDeleteFolder(userId, id) ==
  /\ sqlFolders' = DbDeleteFolder(sqlFolders, fkOn, id, userId)
  /\ last' = Outcome("deleteFolder", userId, id, FALSE)
  /\ UNCHANGED <<folders, files, blobs, nextFolder, nextFile, call, fkOn>>
  /\ UNCHANGED fvars
  /\ UNCHANGED qvars

SqlNext ==
  \/ \E u \in Users, n \in FolderNames, p \in {NoFolder} \cup FolderIds :
       SqlCreateFolder(u, n, p)
  \/ \E u \in Users, id \in FolderIds : SqlDeleteFolder(u, id)

\* the sqlite folders table under the calls of both users
SqlSpec == SqlInit /\ [][SqlNext]_vars

\* ---------------------------------------------------- file calls: actions
\* Date.now() between two calls
Tick ==
  /\ now < MaxClock
  /\ now' = now + 1
  /\ UNCHANGED <<folders, files, blobs, nextFolder, nextFile, call, last,
                 sqlFolders, fkOn, moving, deleting>>
  /\ UNCHANGED qvars

\* a call that has not returned
InFlight(c) == c.kind # "none" /\ c.phase # "returned"

\* upsert of one row: INSERT ... ON CONFLICT (id) DO UPDATE
Upsert(t, id, row) == [i \in DOMAIN t \cup {id} |-> IF i = id THEN row ELSE t[i]]

\* supabaseApi.moveFile up to its upsert: select('*').eq('id', fileId)
\* .single() under row level security
MoveFile(userId, fileId, newFolderId) ==
  /\ moving = NoCall
  /\ IF Visible(files, userId, fileId)
     THEN /\ moving' = [kind |-> "moveFile", phase |-> "upsert", user |-> userId,
                        id |-> fileId, currentFile |-> files[fileId],
                        folder_id |-> newFolderId]
          /\ UNCHANGED last
     ELSE /\ last' = Outcome("moveFile", userId, fileId, TRUE)
          /\ UNCHANGED moving
  /\ UNCHANGED <<folders, files, blobs, nextFolder, nextFile, call,
                 sqlFolders, fkOn, deleting, now>>
  /\ UNCHANGED qvars

\* supabaseApi.moveFile, the upsert of {...currentFile, folder_id:
\* newFolderId}: the whole row that was read is written, as a new row when
\* none has the id; folder_id REFERENCES fm_folders(id), policies
\* auth.uid() = user_id
MoveFileUpsert ==
  /\ moving # NoCall
  /\ LET row == [moving.currentFile EXCEPT !.folder_id = moving.folder_id]
         allowed == /\ row.user_id = moving.user
                    /\ moving.id \in DOMAIN files => Visible(files, moving.user, moving.id)
     IN  IF allowed /\ ForeignKeyHolds(folders, moving.folder_id)
         THEN /\ files' = Upsert(files, moving.id, row)
              /\ last' = Outcome("moveFile", moving.user, moving.id, FALSE)
         ELSE /\ last' = Outcome("moveFile", moving.user, moving.id, TRUE)
              /\ UNCHANGED files
  /\ moving' = NoCall
  /\ UNCHANGED <<folders, blobs, nextFolder, nextFile, call, sqlFolders, fkOn,
                 deleting, now>>
  /\ UNCHANGED qvars

\* supabaseApi.deleteFile up to the storage call: select('storage_path')
\* .eq('id', id).single() under row level security
DeleteFileSelect(userId, id) ==
  /\ ~InFlight(deleting)
  /\ IF Visible(files, userId, id)
     THEN /\ deleting' = [kind |-> "deleteFile", phase |-> "storage",
                          user |-> userId, id |-> id,
                          storage_path |-> files[id].storage_path,
                          storageError |-> FALSE]
          /\ UNCHANGED last
     ELSE /\ last' = Outcome("deleteFile", userId, id, TRUE)
          /\ deleting' = NoCall
  /\ UNCHANGED <<folders, files, blobs, nextFolder, nextFile, call,
                 sqlFolders, fkOn, moving, now>>
  /\ UNCHANGED qvars

AfterRemoveThrow(storageError) == IF storageError THEN "thrown" ELSE "row"

\* deleteFile: if (storageError) console.warn(...): the call goes on
AfterRemove(storageError) == "row"

\* supabaseApi.deleteFile, storage.from('files').remove([storage_path])
\* returned, with an error or not
DeleteFileStorage ==
  /\ InFlight(deleting)
  /\ deleting.phase = "storage"
  /\ \E storageError \in BOOLEAN :
       /\ blobs' = IF storageError THEN blobs ELSE Drop(blobs, {deleting.storage_path})
       /\ IF AfterRemove(storageError) = "row"
          THEN /\ deleting' = [deleting EXCEPT !.phase = "row",
                                               !.storageError = storageError]
               /\ UNCHANGED last
          ELSE /\ deleting' = NoCall
               /\ last' = Outcome("deleteFile", deleting.user, deleting.id, TRUE)
  /\ UNCHANGED <<folders, files, nextFolder, nextFile, call, sqlFolders, fkOn,
                 moving, now>>
  /\ UNCHANGED qvars

\* supabaseApi.deleteFile, from('fm_files').delete().eq('id', id) under
\* USING (auth.uid() = user_id), and the return
DeleteFileRow ==
  /\ InFlight(deleting)
  /\ deleting.phase = "row"
  /\ files' = Drop(files, IF Visible(files, deleting.user, deleting.id)
                          THEN {deleting.id} ELSE {})
  /\ deleting' = [deleting EXCEPT !.phase = "returned"]
  /\ last' = Outcome("deleteFile", deleting.user, deleting.id, FALSE)
  /\ UNCHANGED <<folders, blobs, nextFolder, nextFile, call, sqlFolders, fkOn,
                 moving, now>>
  /\ UNCHANGED qvars

\* the folders named in the file calls: the caller's root, the other
\* user's root, and an id that names no folder
FileFolders == {1, 2, 3}

FileNext ==
  \/ \E f \in HierUploads, p \in FileFolders : UploadFile("u1", f, p)
  \/ \E id \in 1..MaxFiles, p \in FileFolders : MoveFile("u1", id, p)
  \/ MoveFileUpsert
  \/ \E u \in Users, id \in 1..MaxFiles : DeleteFileSelect(u, id)
  \/ DeleteFileStorage
  \/ DeleteFileRow

\* the files of one user under uploads, moves and deletes
FileSpec == Init /\ [][FileNext]_vars

UploadNext ==
  \/ \E f \in Uploads, p \in FileFolders : UploadFile("u1", f, p)
  \/ Tick

\* uploads of files of any name and content at any time
UploadSpec == Init /\ [][UploadNext]_vars

\* ------------------------------------------------------------ breadcrumbs
\* folder.path.split('/').filter(part => part): the non-empty parts of s
\* from position i on, cur being the part read so far
RECURSIVE SplitParts(_, _, _)
SplitParts(s, i, cur) ==
  LET done == IF cur = <<>> THEN <<>> ELSE <<cur>>
  IN  IF i > Len(s) THEN done
      ELSE IF s[i] = "/" THEN done \o SplitParts(s, i + 1, <<>>)
      ELSE SplitParts(s, i + 1, Append(cur, s[i]))

PathParts(path) == SplitParts(path, 1, <<>>)

\* the code point of a character of a name or path
CharCode(c) ==
  CASE c = "/" -> 47 [] c = "D" -> 68 [] c = "R" -> 82 [] c = "c" -> 99
    [] c = "e" -> 101 [] c = "o" -> 111 [] c = "p" -> 112 [] c = "r" -> 114
    [] c = "s" -> 115 [] c = "t" -> 116

\* .order('path'): a is not after b
RECURSIVE PathLeq(_, _)
PathLeq(a, b) ==
  IF a = <<>> THEN TRUE
  ELSE IF b = <<>> THEN FALSE
  ELSE IF CharCode(Head(a)) # CharCode(Head(b)) THEN CharCode(Head(a)) < CharCode(Head(b))
  ELSE PathLeq(Tail(a), Tail(b))

\* the rows S of t in an order .order('path') may give: rows of equal path
\* come in any order
RECURSIVE OrderedByPath(_, _)
OrderedByPath(t, S) ==
  IF S = {} THEN {<<>>}
  ELSE UNION {{<<m>> \o r : r \in OrderedByPath(t, S \ {m})} :
              m \in {x \in S : \A y \in S : PathLeq(t[x].path, t[y].path)}}

\* supabaseApi.getFolderBreadcrumbs for a folder the caller can read: every
\* row of the caller whose name is a part of the folder's path, ordered by
\* path, then the folder itself.  The ids of the results it may return,
\* both selects reading the same table t.
getFolderBreadcrumbs(t, userId, folderId) ==
  LET pathParts == PathParts(t[folderId].path)
      names == {pathParts[k] : k \in DOMAIN pathParts}
      pathFolders == {i \in DOMAIN t : Visible(t, userId, i) /\ t[i].name \in names}
  IN  {r \o <<folderId>> : r \in OrderedByPath(t, pathFolders)}

TypeOK ==
  /\ processing \in BOOLEAN
  /\ loopAt \subseteq JobIds
  /\ Len(build) = Len(jobs)
  /\ Len(db) = Len(jobs)
  /\ fileRows \subseteq FileIds
  /\ DOMAIN folders \subseteq FolderIds
  /\ DOMAIN sqlFolders \subseteq FolderIds
  /\ DOMAIN files \subseteq 1..MaxFiles
  /\ nextFolder \in 1..(MaxFolders + 1)
  /\ nextFile \in 1..(MaxFiles + 1)
  /\ fkOn \in BOOLEAN
  /\ now \in 0..MaxClock
  /\ moving = NoCall \/ moving.kind = "moveFile"
  /\ deleting = NoCall \/ deleting.kind = "deleteFile"
  /\ \A f \in DOMAIN files : files[f].size \in Nat

\* ================================================================ claims
Rank(status) ==
  CASE status = "pending" -> 0
    [] status = "processing" -> 1
    [] OTHER -> 2

\* one step of a status: never backwards, never out of completed or failed
StatusStep(old, new) ==
  /\ Rank(new) >= Rank(old)
  /\ old \in Terminal => new = old

BuildActive(j) == build[j].phase \in {"import", "files", "finalize"}

\* C1: the status of a job only moves pending -> processing -> completed or
\* failed, in the queue record and in the zip_jobs row: no step changes a
\* completed or failed status, and no step moves a status backwards.
C1_StatusMonotonic ==
  [][\A j \in JobIds :
        /\ StatusStep(jobs[j].status, jobs'[j].status)
        /\ StatusStep(db[j].status, db'[j].status)]_vars

\* C2: at most one job is processing, at most one processQueue call is
\* active, and the archive builds of two jobs never overlap.
C2_SingleFlight ==
  /\ Cardinality({j \in JobIds : jobs[j].status = "processing"}) <= 1
  /\ Cardinality(loopAt) <= 1
  /\ Cardinality({j \in JobIds : BuildActive(j)}) <= 1

\* C3: jobs are processed in submission order: when a job has left pending,
\* every job submitted before it is completed or failed.
C3_Fifo ==
  \A i \in JobIds : \A j \in JobIds :
    (i < j /\ jobs[j].status # "pending") => jobs[i].status \in Terminal

C3_Witness ==
  \E i \in JobIds : \E j \in JobIds :
    /\ i < j
    /\ jobs[j].status = "processing"
    /\ jobs[i].status \in Terminal

\* C4: every job that becomes processing eventually becomes completed or
\* failed, whatever the outcome of its archive build.
C4_ProcessingEnds ==
  \A j \in 1..MaxJobs :
    (j \in JobIds /\ jobs[j].status = "processing")
      ~> (j \in JobIds /\ jobs[j].status \in Terminal)

\* C5: no pending job is stranded: whenever the processing flag is false and
\* no processQueue call is active, no job of the queue is pending.
C5_NoStrandedPending ==
  (~processing /\ loopAt = {}) => PendingIds(jobs) = {}

\* the queue is idle again after a job that was submitted to a busy queue
C5_Witness ==
  /\ ~processing
  /\ loopAt = {}
  /\ Len(jobs) >= 2
  /\ \A j \in JobIds : jobs[j].status \in Terminal

\* C6: the record addJob returns has status pending, whether the worker was
\* idle or busy at the call.
C6_ReturnsPending ==
  returned \in {"none", "pending"}

\* C7: a submit returns without any archive being built and without the
\* outcome of any build: in a submit step no processZipFiles call is entered
\* or advanced, no job becomes completed or failed, no zip_jobs row
\* changes, and the new job is returned pending or processing.
C7_SubmitNonBlocking ==
  [][Len(jobs') > Len(jobs) =>
       /\ \A j \in JobIds :
            /\ build'[j].promise = build[j].promise
            /\ build'[j].entries = build[j].entries
            /\ build'[j].archErr = build[j].archErr
            /\ (jobs'[j].status \in Terminal) = (jobs[j].status \in Terminal)
            /\ db'[j] = db[j]
       /\ build'[Len(jobs')].promise = "none"
       /\ jobs'[Len(jobs')].status \notin Terminal
       /\ db'[Len(jobs')].status = "pending"
       /\ returned' \in {"pending", "processing"}]_vars

\* a submit has returned and a build failed later: only the status shows it
C7_Witness ==
  /\ returned # "none"
  /\ \E j \in JobIds :
       /\ jobs[j].status = "failed"
       /\ build[j].promise = "rejected"

\* the entries the request should give: the requested ids in request order,
\* restricted to those whose row was found, whose owner is the job's owner
\* and whose blob exists
RECURSIVE ExpectedEntries(_, _, _)
ExpectedEntries(ids, found, owner) ==
  IF ids = <<>> THEN <<>>
  ELSE LET f == Head(ids)
           rest == ExpectedEntries(Tail(ids), Tail(found), owner)
       IN IF Head(found) /\ FileOwner(f) = owner /\ f % 4 # 0
          THEN <<(<<"name", f>>)>> \o rest
          ELSE rest

\* C8: for every job that completes, the entries of the archive are the
\* requested file ids in request order, restricted to the ids whose metadata
\* row exists, whose owner is the job's owner and whose blob exists when the
\* id is processed, each entry named by the file's name.
C8_ArchiveEntries ==
  \A j \in JobIds :
    jobs[j].status = "completed" =>
      /\ Len(build[j].lookups) = Len(jobs[j].fileIds)
      /\ build[j].entries =
           ExpectedEntries(jobs[j].fileIds, build[j].lookups, jobs[j].userId)

\* [1, 2, 3] requested by u1, 2 owned by u2: the entries are 1 and 3
C8_Witness ==
  \E j \in JobIds :
    /\ jobs[j].status = "completed"
    /\ jobs[j].userId = "u1"
    /\ jobs[j].fileIds = <<1, 2, 3>>
    /\ build[j].entries = <<(<<"name", 1>>), (<<"name", 3>>)>>

\* C9: a failure to resolve a requested file never makes the job failed: a
\* job whose import, archive and output stream did not fail is not failed,
\* in the queue record and in the zip_jobs row.
C9_ResolveFailureNotFatal ==
  \A j \in JobIds :
    (build[j].phase # "importfail" /\ ~build[j].archErr /\ ~build[j].outErr)
      => (jobs[j].status # "failed" /\ db[j].status # "failed")

\* C10: when the archive of a job is written successfully, the zip_jobs row
\* is completed with download_url '/api/zip/{jobId}' and completed_at set,
\* and the queue record is completed with processedAt set.
C10_CompletedRecord ==
  \A j \in JobIds :
    (build[j].phase = "closed" /\ ~build[j].archErr) =>
      /\ db[j].status = "completed"
      /\ db[j].download_url = <<"/api/zip/", j>>
      /\ db[j].completed_at # "null"
      /\ jobs[j].status = "completed"
      /\ jobs[j].processedAt # "null"

C10_Witness ==
  \E j \in JobIds :
    /\ build[j].phase = "closed"
    /\ ~build[j].archErr
    /\ build[j].entries # <<>>

\* C11: when building the archive of a job fails (the 'error' handler or
\* the catch of processZipFiles rejected the build), the zip_jobs row is
\* failed and its completed_at is set.
C11_FailedRecord ==
  \A j \in JobIds :
    build[j].promise = "rejected" =>
      /\ db[j].status = "failed"
      /\ db[j].completed_at # "null"

\* C12: a zip_jobs row carries a download_url only if the job is completed;
\* the output of a build that failed is never referenced by a row.
C12_HandleOnlyCompleted ==
  \A j \in JobIds :
    db[j].download_url # <<>> =>
      /\ db[j].status = "completed"
      /\ jobs[j].status = "completed"
      /\ ~build[j].archErr

\* a step in which supabaseApi.deleteFolder returned
DeleteFolderStep == last'.op = "deleteFolder" /\ call' = call

\* the rows of one owner
Owned(t, userId) == {i \in DOMAIN t : t[i].user_id = userId}

\* id names a row of table t that belongs to userId
OwnedBy(t, userId, id) == id \in DOMAIN t /\ t[id].user_id = userId

\* following parent_id from id ends at NULL within n rows
RECURSIVE ReachesRoot(_, _, _)
ReachesRoot(t, id, n) ==
  IF id = NoFolder THEN TRUE
  ELSE IF n = 0 \/ id \notin DOMAIN t THEN FALSE
  ELSE ReachesRoot(t, t[id].parent_id, n - 1)

C14_OneRoot ==
  \A u \in Users :
    LET roots == {i \in Owned(folders, u) : folders[i].parent_id = NoFolder}
    IN  /\ Cardinality(roots) = 1
        /\ \A i \in roots : folders[i].path = Slash

\* C15: no folder row has a parent_id and no file row has a folder_id that
\* refers to a folder that was deleted, in the fm_ tables and in the sqlite
\* folders table.
C15_NoDanglingReference ==
  /\ \A i \in DOMAIN folders :
       folders[i].parent_id # NoFolder => folders[i].parent_id \in DOMAIN folders
  /\ \A f \in DOMAIN files : files[f].folder_id \in DOMAIN folders
  /\ \A i \in DOMAIN sqlFolders :
       sqlFolders[i].parent_id # NoFolder => sqlFolders[i].parent_id \in DOMAIN sqlFolders

\* C16: a deleteFolder call leaves no blob stored for a file row that its
\* cascade removed.
C16_BlobsOfCascadedFilesRemoved ==
  [][DeleteFolderStep =>
       \A f \in DOMAIN files \ DOMAIN files' : files[f].storage_path \notin DOMAIN blobs']_vars

\* C17: deleteFolder by an owner on the owner's parentless folder throws and
\* leaves every folder and file row unchanged.
C17_RootDeleteRejected ==
  [][(/\ DeleteFolderStep
      /\ OwnedBy(folders, last'.user, last'.arg)
      /\ folders[last'.arg].parent_id = NoFolder)
       => (last'.err /\ folders' = folders /\ files' = files)]_vars

\* C18: deleteFolder on an existing folder of another user throws and
\* deletes no folder and no file.
C18_ForeignDeleteFails ==
  [][(/\ DeleteFolderStep
      /\ last'.arg \in DOMAIN folders
      /\ folders[last'.arg].user_id # last'.user)
       => (last'.err /\ folders' = folders /\ files' = files)]_vars

\* what createFolder may do in one step: a call whose parentId names no
\* folder of the caller throws and adds no row, and a row is added only
\* under a folder of the same owner that exists
CreateFolderChecked ==
  /\ (/\ last' # last
      /\ last'.op = "createFolder"
      /\ last'.arg # NoFolder
      /\ ~OwnedBy(folders, last'.user, last'.arg))
       => (last'.err /\ folders' = folders)
  /\ \A i \in DOMAIN folders' \ DOMAIN folders :
       folders'[i].parent_id # NoFolder =>
         OwnedBy(folders, folders'[i].user_id, folders'[i].parent_id)

ParentsValid ==
  \A i \in DOMAIN folders :
    /\ folders[i].parent_id # NoFolder =>
         OwnedBy(folders, folders[i].user_id, folders[i].parent_id)
    /\ ReachesRoot(folders, i, Cardinality(DOMAIN folders))

\* C19: createFolder with a parentId that does not exist or that names a
\* folder of another owner throws and creates no folder; in every state the
\* parent of a folder, when not null, is an existing folder of the same
\* owner, and the parent links have no cycle.
C19_ParentChecked == []ParentsValid /\ [][CreateFolderChecked]_vars

\* createFolder was refused for a parent that exists and belongs to the
\* other user, while a folder below a root exists
C19_Witness ==
  /\ last.op = "createFolder"
  /\ last.err
  /\ last.arg \in DOMAIN folders
  /\ folders[last.arg].user_id # last.user
  /\ \E i \in DOMAIN folders : folders[i].parent_id # NoFolder

\* C20: no two folders of one owner have the same parent and the same name.
C20_UniqueSiblingNames ==
  \A a, b \in DOMAIN folders :
    (/\ a # b
     /\ folders[a].user_id = folders[b].user_id
     /\ folders[a].parent_id = folders[b].parent_id)
      => folders[a].name # folders[b].name

\* the ancestors of folder id, the root first
RECURSIVE AncestorsOf(_, _)
AncestorsOf(t, id) ==
  LET p == t[id].parent_id
  IN  IF p \notin DOMAIN t THEN <<>> ELSE AncestorsOf(t, p) \o <<p>>

\* C21: for every folder F, getFolderBreadcrumbs(F) called by F's owner
\* returns F's ancestors, each once and from the root down, followed by F,
\* and nothing else.
C21_Breadcrumbs ==
  \A F \in DOMAIN folders :
    \A r \in getFolderBreadcrumbs(folders, folders[F].user_id, F) :
      r = AncestorsOf(folders, F) \o <<F>>

\* the folder made by the trigger: 'Root' without a parent
IsRootFolder(t, id) ==
  id \in DOMAIN t /\ t[id].parent_id = NoFolder /\ t[id].name = Root

\* C22: a folder 'Docs' created under an owner's root folder has the path
\* '/Docs/', and a folder 'Reports' created under that 'Docs' has the path
\* '/Docs/Reports/'.
C22_PathEndsWithOwnName ==
  \A d \in DOMAIN folders :
    (folders[d].name = Docs /\ IsRootFolder(folders, folders[d].parent_id)) =>
      /\ folders[d].path = Slash \o Docs \o Slash
      /\ \A r \in DOMAIN folders :
           (folders[r].name = Reports /\ folders[r].parent_id = d) =>
             folders[r].path = Slash \o Docs \o Slash \o Reports \o Slash

\* C23: after any uploadFile and moveFile calls the folder of every file is
\* an existing folder of the file's owner.
C23_FolderOfOwner ==
  \A f \in DOMAIN files :
    OwnedBy(folders, files[f].user_id, files[f].folder_id)

\* the bytes that were uploaded for the row of file f
BytesOf(f) == blobs[files[f].storage_path]

\* C24: two stored files with the same bytes have the same checksum,
\* whatever their names and upload times, and the row of a file has the
\* name and the size of what was uploaded.
C24_ChecksumOfContent ==
  \A f, g \in DOMAIN files :
    /\ BytesOf(f) = BytesOf(g) => files[f].checksum = files[g].checksum
    /\ files[f].size = Len(BytesOf(f))
    /\ files[f].name = files[f].storage_path[5]

\* one step of a deleteFile call: whatever storage.remove answered, the
\* call goes on to delete the row; when the call returns it returns without
\* error, the row is gone, and the blob is gone unless storage.remove failed
DeleteFileStep ==
  /\ (InFlight(deleting) /\ deleting.phase = "storage" /\ deleting' # deleting)
       => (deleting'.kind = "deleteFile" /\ deleting'.phase = "row")
  /\ (/\ deleting' # deleting
      /\ deleting'.kind = "deleteFile"
      /\ deleting'.phase = "returned")
       => /\ last' = [op |-> "deleteFile", user |-> deleting.user,
                      arg |-> deleting.id, err |-> FALSE]
          /\ deleting.id \notin DOMAIN files'
          /\ ~deleting'.storageError => deleting.storage_path \notin DOMAIN blobs'

\* C25: deleteFile asks the storage to remove the blob and then deletes the
\* row; a failure of the blob removal does not stop it, and after it returns
\* without error the row is gone whether or not the blob was removed.
C25_MetadataDeleted == [][DeleteFileStep]_vars

\* deleteFile returned without error after storage.remove had failed: the
\* row is gone and the blob is still stored
C25_Witness ==
  /\ deleting.kind = "deleteFile"
  /\ deleting.phase = "returned"
  /\ deleting.storageError
  /\ deleting.id \notin DOMAIN files
  /\ deleting.storage_path \in DOMAIN blobs
  /\ last.op = "deleteFile" /\ ~last.err

\* a step in which supabaseApi.uploadFile ran
UploadStep == nextFile' # nextFile

\* C26: uploadFile creates a row only after the blob was written: when the
\* blob write fails the call throws and no row is created, and every row has
\* its blob stored at the moment it is created.
C26_RowAfterBlob ==
  [][UploadStep =>
       /\ blobs' = blobs => (files' = files /\ last'.op = "uploadFile" /\ last'.err)
       /\ \A f \in DOMAIN files' \ DOMAIN files :
            /\ files'[f].storage_path \in DOMAIN blobs'
            /\ ~last'.err]_vars

\* a blob write into an existing folder failed after another upload had
\* stored a row: the failed call left no row
C26_Witness ==
  /\ last.op = "uploadFile"
  /\ last.err
  /\ last.arg \in DOMAIN folders
  /\ nextFile = 3
  /\ DOMAIN files = {1}
  /\ DOMAIN blobs = {files[1].storage_path}

\* C27: the queue record and the zip_jobs row of a job never hold different
\* final statuses: when the queue record is completed (failed), the row is
\* completed (failed) too.
C27_StoresAgree ==
  \A j \in JobIds :
    jobs[j].status \in Terminal => db[j].status = jobs[j].status

\* C28: a deleted file does not reappear: when deleteFile(f) has returned
\* without error and no moveFile call is in flight, fm_files has no row f.
C28_DeletedStaysDeleted ==
  (/\ deleting.kind = "deleteFile"
   /\ deleting.phase = "returned"
   /\ moving = NoCall)
    => deleting.id \notin DOMAIN files

\* C29: an uploadFile call that throws leaves no blob behind, so every
\* stored blob is the blob of a row.
C29_NoBlobWithoutRow ==
  [][UploadStep =>
       /\ last'.err => blobs' = blobs
       /\ \A b \in DOMAIN blobs' \ DOMAIN blobs :
            \E f \in DOMAIN files' : files'[f].storage_path = b]_vars

\* no folder row names a parent that is not in the table
NoChildOfDeleted ==
  \A i \in DOMAIN folders :
    folders[i].parent_id = NoFolder \/ folders[i].parent_id \in DOMAIN folders

\* the insert of a createFolder call whose parent was deleted after the
\* call had read it stores nothing and throws
InsertAfterDelete ==
  (/\ call # NoCall
   /\ call' = NoCall
   /\ call.parent_id # NoFolder
   /\ call.parent_id \notin DOMAIN folders)
    => (folders' = folders /\ last'.op = "createFolder" /\ last'.err)

\* C30: when createFolder(child under P) and deleteFolder(P) interleave,
\* the child is either never stored or removed with P: in every state no
\* folder has a parent_id that names a deleted folder.
C30_CreateDeleteRace == []NoChildOfDeleted /\ [][InsertAfterDelete]_vars

\* deleteFolder(P) returned between the parent read and the insert of a
\* createFolder call under P
C30_Witness ==
  /\ call # NoCall
  /\ call.parent_id # NoFolder
  /\ call.parent_id \notin DOMAIN folders
  /\ last.op = "deleteFolder"
  /\ last.arg = call.parent_id
====
